---- MODULE Spec2Model ----
(***************************************************************************)
(* A model of cuckoo (src/cuckoo.c): the install transaction that moves an *)
(* executable into its hidden scripts directory and leaves a symlink to    *)
(* the tool in its place, and the dispatch that runs the chain of          *)
(* executables found in the scripts directory and in the common directory. *)
(*                                                                         *)
(* One process run is modelled at the granularity of its system calls.     *)
(* The filesystem is reduced to the objects the tool looks at:             *)
(*   target      the object at <dir>/<name> (argv[1] of an install,        *)
(*               argv[0] of a dispatch)                                    *)
(*   scriptsDir  the object at <dir>/.<name>.d                             *)
(*   moved       the object at <dir>/.<name>.d/50-<name>                   *)
(*   commonDir   the object at /etc/cuckoo/<name>                          *)
(*   sdFiles, cdFiles   the other immediate children of the two            *)
(*               directories, by base name                                 *)
(* Base names are represented by their rank in the collation order of the  *)
(* locale, so that strcoll() is the comparison of ranks.                   *)
(***************************************************************************)
EXTENDS Integers, Sequences, FiniteSets, TLC

\* ------------------------------------------------------------------ bounds
\* base names that may be present in the scripts directory: 1..MaxNames
MaxNames == 3
\* child exit codes: 0..MaxCode
MaxCode == 2
\* how many files execve() rejects a scripts directory may hold, and how many
\* failures of execve() one dispatch is followed through
MaxExecFail == 1
\* how many times the operator runs the install command on the same target
MaxRuns == 2
\* the longest chain the two directories hold together, a file execve()
\* rejects counting twice (what follows it in the chain may run twice)
MaxChain == 4

\* ------------------------------------------------------- program constants
\* errno values the failing system calls leave behind
ENOENT == 2
EAGAIN == 11
EACCES == 13
EEXIST == 17
EXDEV == 18

ScriptNames == 1..MaxNames
\* the common directory holds the lowest and the highest base name at most
CommonNames == {1, MaxNames}
ExitCodes == 0..MaxCode

TargetKinds == {"absent", "regx", "regnx", "dir", "fifo", "link_self", "link_other"}
DirKinds == {"absent", "dir", "file", "noread"}
\* a regular file with an execute bit ("exec"), without one ("nonexec"), or with
\* an execute bit and a content execve() rejects ("badfmt"); a subdirectory
\* holding an executable regular file ("subdir"); a FIFO with execute bits
\* ("fifox")
FileKinds == {"absent", "exec", "nonexec", "badfmt", "subdir", "fifox"}
\* what strdup(NULL) does (makeDirectory, line 279) is undefined
NullDerefOutcomes == {"crash", "null"}

VARIABLES
    argv0,          \* base name of argv[0] as invoked: "cuckoo" or "tool"
    argc,           \* argument count
    arg1,           \* argv[1] as invoked: "" or "path" (for an install, of target)
    argv,           \* the argument vector as the process holds it now
    envp,           \* the environment the process holds
    pc,             \* position of the process
    result,         \* the int the running function returns
    said,           \* what the run told the operator last: "" when nothing
    target, scriptsDir, moved, commonDir, sdFiles, cdFiles,   \* the filesystem
    executableHead, \* the global list of executables, head first
    executable,     \* invoke's cursor: the entries of the list not yet launched
    toVisit,        \* entries nftw() has not reported yet
    outOfOrder,     \* the walk reported an entry after one that sorts later
    chain,          \* the list as the scans left it
    launched,       \* the calls of launch() so far, in order
    depth,          \* number of vfork children running the dispatcher's code
    saved,          \* loop state of the suspended processes, outermost first
    wstatus,        \* how the child a resuming process waits for ended
    runs,           \* number of the current run of the command
    fs0,            \* the filesystem when the first run started
    firstRun        \* filesystem and exit code the first run ended with

vars == <<argv0, argc, arg1, argv, envp, pc, result, said, target, scriptsDir, moved, commonDir,
          sdFiles, cdFiles, executableHead, executable, toVisit, outOfOrder, chain, launched,
          depth, saved, wstatus, runs, fs0, firstRun>>

fsVars == <<target, scriptsDir, moved, commonDir, sdFiles, cdFiles>>
argVars == <<argv0, argc, arg1, envp>>
dispatchVars == <<executableHead, executable, toVisit, outOfOrder, chain, launched, depth, saved, wstatus>>
runVars == <<runs, fs0, firstRun>>

FS == [target |-> target, scriptsDir |-> scriptsDir, moved |-> moved,
       commonDir |-> commonDir, sdFiles |-> sdFiles, cdFiles |-> cdFiles]

badFiles(files) == Cardinality({n \in DOMAIN files : files[n] \in {"badfmt", "fifox"}})
listed(files) == Cardinality({n \in DOMAIN files : files[n] = "exec"})
NoFiles(names) == [n \in names |-> "absent"]
NoStatus == [k |-> "none", code |-> 0]
NoRun == [done |-> FALSE, fs |-> <<>>, result |-> 0, said |-> ""]

\* --------------------------------------------------------------------- Init
InitInstall ==
    /\ argv0 = "cuckoo"
    /\ argc \in 1..3
    /\ arg1 \in IF argc = 1 THEN {""} ELSE {"", "path"}
    /\ target \in TargetKinds
    /\ scriptsDir \in DirKinds
    /\ moved \in IF scriptsDir = "dir" THEN {"absent", "old"} ELSE {"absent"}
    /\ commonDir \in {"absent", "dir"}
    /\ sdFiles = NoFiles(ScriptNames)
    /\ cdFiles = NoFiles(CommonNames)

InitInvoke ==
    /\ argv0 = "tool"
    /\ argc \in 1..2
    /\ arg1 = IF argc = 1 THEN "" ELSE "path"
    /\ target \in TargetKinds
    /\ scriptsDir \in DirKinds
    /\ commonDir \in DirKinds
    /\ moved = "absent"
    \* directory contents are enumerated for the installed layout, invoked with
    \* one argument; files that execve() rejects are enumerated with an empty
    \* common directory, a FIFO under the first name, subdirectories without
    \* a common directory
    /\ sdFiles \in IF scriptsDir = "dir" /\ target = "link_self" /\ argc = 2
                   THEN [ScriptNames -> {"absent", "exec", "nonexec"}]
                        \cup {f \in [ScriptNames -> {"absent", "exec", "badfmt"}] :
                                 /\ badFiles(f) <= MaxExecFail
                                 /\ listed(f) + 2 * badFiles(f) <= MaxChain}
                        \cup {f \in [ScriptNames -> {"absent", "exec", "fifox"}] :
                                 \A n \in ScriptNames : f[n] = "fifox" => n = 1}
                        \cup {f \in [ScriptNames -> {"absent", "exec", "subdir"}] :
                                 commonDir # "dir"}
                   ELSE {NoFiles(ScriptNames)}
    /\ cdFiles \in IF commonDir = "dir" /\ target = "link_self" /\ argc = 2
                      /\ badFiles(sdFiles) = 0
                   THEN {f \in [CommonNames -> {"absent", "exec"}] :
                            listed(sdFiles) + listed(f) <= MaxChain}
                   ELSE {NoFiles(CommonNames)}

\* the arguments after argv[0] the process was started with
Args == IF argc = 1 THEN <<>> ELSE IF argc = 2 THEN <<arg1>> ELSE <<arg1, "more">>

\* the environment the process was started with
Environ == <<"HOME=/root", "LANG=C">>

Init ==
    /\ InitInstall \/ InitInvoke
    /\ argv = <<argv0>> \o Args
    /\ envp = Environ
    /\ pc = "main"
    /\ result = 0
    /\ said = ""
    /\ executableHead = <<>>
    /\ executable = <<>>
    /\ toVisit = {}
    /\ outOfOrder = FALSE
    /\ chain = <<>>
    /\ launched = <<>>
    /\ depth = 0
    /\ saved = <<>>
    /\ wstatus = NoStatus
    /\ runs = 1
    /\ fs0 = FS
    /\ firstRun = NoRun

\* ------------------------------------------------------------ main (678-712)
\* the usage test of main: true when the arguments are not one non-empty path
badUsage(c, a1) == c # 2 \/ a1 = ""

main ==
    /\ pc = "main"
    /\ IF argv0 = "cuckoo"
       THEN IF badUsage(argc, arg1)
            THEN pc' = "done" /\ said' = "usage"     \* result is still 0
            ELSE pc' = "install_abs" /\ UNCHANGED said
       ELSE pc' = "invoke_abs" /\ UNCHANGED said
    /\ UNCHANGED <<result, fsVars, argVars, argv, dispatchVars, runVars>>

\* absolutePath (124-184): NULL when lstat fails or the type is unsupported
absolutePath(t) == IF t \in {"absent", "fifo"} THEN "NULL" ELSE "path"

\* mkDirRecurse (213-241): the directory once it was asked for, 0 or a failure
mkDirRecurse(d, mkdirOk) ==
    IF d = "absent"
    THEN IF mkdirOk THEN [dir |-> "dir", rc |-> 0] ELSE [dir |-> "absent", rc |-> -1]
    ELSE [dir |-> d, rc |-> 0]

\* makeDirectory (248-280) up to its return statement: the directory afterwards
\* and whether `result` is the path (TRUE) or still NULL (FALSE)
makeDirectory(d, mkdirOk) ==
    IF d # "absent"
    THEN [dir |-> d, path |-> (d \in {"dir", "noread"})]
    ELSE LET r == mkDirRecurse(d, mkdirOk)
         IN  [dir |-> r.dir, path |-> (r.rc = 0)]

\* a getPathToSelf that trusts the name the process was invoked by
getPathToSelfFromArgv0(readlinkOk) == IF readlinkOk THEN "argv0" ELSE ""

\* getPathToSelf (395-406): the link target readlink() yields, "" when it fails
getPathToSelf(readlinkOk) == IF readlinkOk THEN "self" ELSE ""

\* the symbolic link symlink( execPath, ... ) creates
linkTo(execPath) == IF execPath = "self" THEN "link_self" ELSE "link_other"

\* a reportErrno that returns nothing useful
reportErrnoZero(savedErrno) == 0

\* ReportErrno_ (86-101): prints the message and returns the errno it found
reportErrno(savedErrno) == savedErrno

\* a move done as a copy that leaves its source in place
renameAsCopy(t, m) == [target |-> t, moved |-> "orig"]

\* rename( installPath, targetPath ) when it succeeds (line 459): the file
\* leaves the original path and replaces whatever was at the new one
rename(t, m) == [target |-> "absent", moved |-> "orig"]

\* --------------------------------------------------------- install (413-495)
\* line 417: installPath = absolutePath( argv[1] )
installAbsolutePath ==
    /\ pc = "install_abs"
    /\ IF absolutePath(target) = "NULL"
       THEN pc' = "done" /\ said' = "err"       \* result is still 0
       ELSE pc' = "install_sdir" /\ UNCHANGED said
    /\ UNCHANGED <<result, fsVars, argVars, argv, dispatchVars, runVars>>

\* line 423: scriptsDir = getScriptsDir( installPath ), makeDirectory inside
installGetScriptsDir ==
    /\ pc = "install_sdir"
    /\ \E mkdirOk \in BOOLEAN, ub \in NullDerefOutcomes :
          LET m == makeDirectory(scriptsDir, mkdirOk)
          IN  /\ scriptsDir' = m.dir
              /\ IF m.path
                 THEN pc' = "install_stat" /\ UNCHANGED said
                 ELSE /\ said' = "err"
                      /\ IF ub = "crash"
                         THEN pc' = "crashed"   \* strdup( NULL ) faults
                         ELSE pc' = "done"      \* strdup( NULL ) yields NULL: result 0
    /\ UNCHANGED <<result, target, moved, commonDir, sdFiles, cdFiles,
                   argVars, argv, dispatchVars, runVars>>

\* an installSwitch without the case for a symbolic link
installSwitchLinkUnsupported(t) ==
    CASE t = "regx" -> [move |-> TRUE, rc |-> 0, msg |-> ""]
      [] OTHER -> [move |-> FALSE, rc |-> -1, msg |-> "err"]

\* lines 427-452: the second lstat and the switch on the file type.
\* Whether install goes on to move the target, and the int it returns if not.
installSwitch(t) ==
    CASE t \in {"link_self", "link_other"} -> [move |-> FALSE, rc |-> 0, msg |-> "nothing to do"]
      [] t = "regx" -> [move |-> TRUE, rc |-> 0, msg |-> ""]
      [] OTHER -> [move |-> FALSE, rc |-> -1, msg |-> "err"]

installStat ==
    /\ pc = "install_stat"
    /\ IF installSwitch(target).move
       THEN /\ pc' = "install_rename"
            /\ UNCHANGED <<result, said>>
       ELSE /\ pc' = "done"
            /\ result' = installSwitch(target).rc
            /\ said' = installSwitch(target).msg
    /\ UNCHANGED <<fsVars, argVars, argv, dispatchVars, runVars>>

\* line 459: rename( installPath, targetPath )
installRename ==
    /\ pc = "install_rename"
    /\ \E renameOk \in BOOLEAN :
          IF renameOk
          THEN /\ moved' = rename(target, moved).moved
               /\ target' = rename(target, moved).target
               /\ pc' = "install_symlink"
               /\ UNCHANGED <<result, said>>
          ELSE /\ result' = reportErrno(EXDEV)
               /\ said' = "err"
               /\ pc' = "done"
               /\ UNCHANGED <<moved, target>>
    /\ UNCHANGED <<scriptsDir, commonDir, sdFiles, cdFiles, argVars, argv, dispatchVars, runVars>>

\* lines 466-479: getPathToSelf() and symlink( execPath, installPath )
installSymlink ==
    /\ pc = "install_symlink"
    /\ \E readlinkOk \in BOOLEAN, symlinkOk \in BOOLEAN :
          LET execPath == getPathToSelf(readlinkOk)
          IN  IF execPath = ""
              THEN /\ result' = reportErrno(ENOENT)   \* symlink( "", ... ) fails
                   /\ said' = "err: unable to symlink"
                   /\ UNCHANGED target
              ELSE IF symlinkOk /\ target = "absent"
                   THEN /\ target' = linkTo(execPath)
                        /\ said' = "installed"
                        /\ UNCHANGED result
                   ELSE /\ result' = reportErrno(IF target = "absent" THEN EACCES ELSE EEXIST)
                        /\ said' = "err: unable to symlink"
                        /\ UNCHANGED target
    /\ pc' = "done"
    /\ UNCHANGED <<scriptsDir, moved, commonDir, sdFiles, cdFiles, argVars, argv, dispatchVars, runVars>>

\* the operator runs the same install command again
repeatInstall ==
    /\ pc = "done"
    /\ argv0 = "cuckoo"
    /\ runs < MaxRuns
    /\ runs' = runs + 1
    /\ firstRun' = IF runs = 1 THEN [done |-> TRUE, fs |-> FS, result |-> result, said |-> said] ELSE firstRun
    /\ pc' = "main"
    /\ result' = 0
    /\ said' = ""
    /\ UNCHANGED <<fs0, fsVars, argVars, argv, dispatchVars>>

\* ------------------------------------------------------- the list (536-607)
Entry(d, n) == [d |-> d, n |-> n]

\* a strcoll with its operands swapped
strcollSwapped(a, b) == b - a

\* strcoll on two base names: negative, zero or positive
strcoll(a, b) == a - b

\* an insertion that also goes before an entry that compares equal
RECURSIVE insertBeforeEqual(_, _)
insertBeforeEqual(e, list) ==
    IF list = <<>> THEN <<e>>
    ELSE IF e.n - Head(list).n <= 0
         THEN <<e>> \o list
         ELSE <<Head(list)>> \o insertBeforeEqual(e, Tail(list))

\* lines 583-597: insert before the first entry that sorts after the new one
RECURSIVE insertSorted(_, _)
insertSorted(e, list) ==
    IF list = <<>> THEN <<e>>
    ELSE IF strcoll(e.n, Head(list).n) < 0
         THEN <<e>> \o list
         ELSE <<Head(list)>> \o insertSorted(e, Tail(list))

\* the entryType nftw() hands the callback: FTW_F for whatever is not a
\* directory
entryType(kind) == IF kind = "subdir" THEN "FTW_D" ELSE "FTW_F"

\* ftw->level of an entry: 0 is the directory walked, 1 its children
level(e) == IF e.d = "sub" THEN 2 ELSE 1

\* line 571: faccessat( X_OK ) looks at the permission bits only
faccessat(kind) == kind \in {"exec", "badfmt", "fifox"}

\* a forEachEntry that puts the new entry at the tail
forEachEntryAppend(list, kind, e) ==
    IF entryType(kind) = "FTW_F" /\ faccessat(kind) THEN Append(list, e) ELSE list

\* forEachEntry (552-607): the list after nftw() reported an entry of `kind`
forEachEntry(list, kind, e) ==
    IF entryType(kind) = "FTW_F" /\ faccessat(kind) THEN insertSorted(e, list) ELSE list

\* lines 559-567: what the callback returns to nftw()
forEachEntryReturn(kind, e) ==
    IF entryType(kind) = "FTW_D" /\ level(e) > 0 THEN "FTW_SKIP_SUBTREE" ELSE "FTW_CONTINUE"

\* the entries nftw() reports for a directory: none unless it can be read
walkOf(dirKind, files, d) ==
    IF dirKind = "dir"
    THEN {Entry(d, n) : n \in {m \in DOMAIN files : files[m] # "absent"}}
    ELSE {}

\* what is inside a subdirectory: an executable regular file of the same name
inside(e) == Entry("sub", e.n)

kindOf(e) ==
    CASE e.d = "s" -> sdFiles[e.n]
      [] e.d = "c" -> cdFiles[e.n]
      [] e.d = "sub" -> "exec"

\* ---------------------------------------------------------- launch (503-534)
\* what may become of a launch of a file of `kind`: vfork() fails; or execve()
\* fails in the child; or the child runs and exits or is killed by a signal
Outcomes(kind) ==
    {[k |-> "forkfail", code |-> EAGAIN]}
    \cup IF kind \in {"badfmt", "fifox"}
         THEN {[k |-> "execfail", code |-> 0]}
         ELSE [k : {"exit"}, code : ExitCodes] \cup {[k |-> "signal", code |-> 0]}

\* a launch() that hands back the raw wait status of a child a signal killed
launchRawStatus(out) ==
    CASE out.k = "exit" -> out.code
      [] out.k = "signal" -> 1
      [] out.k = "forkfail" -> out.code
      [] out.k = "execfail" -> 0

\* the int launch() returns to the thread that goes on in invoke's loop:
\* for "execfail" that thread is the vfork child, which breaks out of the
\* switch with result still 0
launch(out) ==
    CASE out.k = "exit" -> out.code
      [] out.k = "signal" -> 0
      [] out.k = "forkfail" -> out.code
      [] out.k = "execfail" -> 0

\* lines 526-530 in a process that resumes after its vfork child is gone
waited(status) == IF status.k = "exit" THEN status.code ELSE 0

\* ---------------------------------------------------------- invoke (615-669)
\* an aggregation in which a later non-zero code replaces an earlier one
aggregateLast(r, res) == IF res # 0 THEN res ELSE r

\* lines 648-651
aggregate(r, res) == IF r = 0 /\ res # 0 THEN res ELSE r

\* a loop that stops at the first failure
loopContinuesWhileZero(cursor, r) == cursor # <<>> /\ r = 0

\* a rewrite that hands the child the entry's path alone
rewriteArgvWhole(av, path) == <<path>>

\* line 645: argv[0] = executable->path
rewriteArgv(av, path) == [av EXCEPT ![1] = path]

\* line 643
loopContinues(cursor, r) == cursor # <<>>

\* how many launches so far ended with execve() failing
execFailures(log) == Cardinality({i \in 1..Len(log) : log[i].out.k = "execfail"})

\* line 621: installPath = absolutePath( argv[0] )
invokeAbsolutePath ==
    /\ pc = "invoke_abs"
    /\ IF absolutePath(target) = "NULL"
       THEN pc' = "done" /\ said' = "err"       \* result is still 0
       ELSE pc' = "invoke_sdir" /\ UNCHANGED said
    /\ UNCHANGED <<result, fsVars, argVars, argv, dispatchVars, runVars>>

\* line 624: scriptsDir = getScriptsDir( installPath )
invokeGetScriptsDir ==
    /\ pc = "invoke_sdir"
    /\ \E mkdirOk \in BOOLEAN, ub \in NullDerefOutcomes :
          LET m == makeDirectory(scriptsDir, mkdirOk)
          IN  /\ scriptsDir' = m.dir
              /\ IF m.path
                 THEN pc' = "invoke_cdir" /\ UNCHANGED said
                 ELSE /\ said' = "err"
                      /\ IF ub = "crash" THEN pc' = "crashed" ELSE pc' = "done"
    /\ UNCHANGED <<result, target, moved, commonDir, sdFiles, cdFiles,
                   argVars, argv, dispatchVars, runVars>>

\* lines 627-639: commonDir = getCommonDir( installPath ), then the list is
\* emptied and nftw() starts on the scripts directory
invokeGetCommonDir ==
    /\ pc = "invoke_cdir"
    /\ \E mkdirOk \in BOOLEAN, ub \in NullDerefOutcomes :
          LET m == makeDirectory(commonDir, mkdirOk)
          IN  /\ commonDir' = m.dir
              /\ IF m.path
                 THEN /\ pc' = "nftw_s"
                      /\ toVisit' = walkOf(scriptsDir, sdFiles, "s")
                      /\ UNCHANGED said
                 ELSE /\ IF ub = "crash" THEN pc' = "crashed" ELSE pc' = "done"
                      /\ said' = "err"
                      /\ UNCHANGED toVisit
    /\ executableHead' = <<>>
    /\ UNCHANGED <<result, target, moved, scriptsDir, sdFiles, cdFiles, argVars, argv,
                   executable, outOfOrder, chain, launched, depth, saved, wstatus, runVars>>

\* one callback of nftw() (lines 639-640): any entry not yet reported
nftwEntry ==
    /\ pc \in {"nftw_s", "nftw_c"}
    /\ \E e \in toVisit :
          /\ executableHead' = forEachEntry(executableHead, kindOf(e), e)
          /\ toVisit' = (toVisit \ {e})
                            \cup IF /\ entryType(kindOf(e)) = "FTW_D"
                                    /\ forEachEntryReturn(kindOf(e), e) = "FTW_CONTINUE"
                                 THEN {inside(e)} ELSE {}
          /\ outOfOrder' = (outOfOrder \/
                (/\ pc = "nftw_s"
                 /\ \E i \in 1..Len(executableHead) : faccessat(kindOf(e))
                                                  /\ executableHead[i].n > e.n))
    /\ UNCHANGED <<pc, result, said, fsVars, argVars, argv, executable, chain, launched,
                   depth, saved, wstatus, runVars>>

\* nftw() returns: the second walk starts, or (line 642) the loop does
nftwReturn ==
    /\ pc \in {"nftw_s", "nftw_c"}
    /\ toVisit = {}
    /\ IF pc = "nftw_s"
       THEN /\ pc' = "nftw_c"
            /\ toVisit' = walkOf(commonDir, cdFiles, "c")
            /\ UNCHANGED <<executable, chain>>
       ELSE /\ pc' = "loop"
            /\ executable' = executableHead
            /\ chain' = executableHead
            /\ UNCHANGED toVisit
    /\ UNCHANGED <<result, said, fsVars, argVars, argv, executableHead, outOfOrder, launched,
                   depth, saved, wstatus, runVars>>

\* lines 643-657: one turn of the loop, up to the point where launch() has a
\* child running the entry (line 526, waitpid) or has none: vfork() failed, or
\* execve() failed in the child. When execve() fails the vfork child returns
\* from launch() and goes on in this loop, in the memory it shares with its
\* suspended parent.
loopBody ==
    /\ pc = "loop"
    /\ loopContinues(executable, result)
    /\ argv' = rewriteArgv(argv, Head(executable))
    /\ \E out \in Outcomes(kindOf(Head(executable))) :
          IF out.k \in {"exit", "signal"}
          THEN /\ pc' = "waitpid"
               /\ UNCHANGED <<result, executable, launched, depth, saved>>
          ELSE /\ out.k = "execfail" => execFailures(launched) < MaxExecFail
               /\ launched' = Append(launched, [e |-> Head(executable), by |-> depth,
                                                 out |-> out, argv |-> argv', envp |-> envp])
               /\ result' = aggregate(result, launch(out))
               /\ executable' = Tail(executable)
               /\ IF out.k = "execfail"
                  THEN /\ depth' = depth + 1
                       /\ saved' = Append(saved, [executable |-> executable, result |-> result])
                  ELSE UNCHANGED <<depth, saved>>
               /\ UNCHANGED pc
    /\ UNCHANGED <<said, fsVars, argVars, executableHead, toVisit, outOfOrder, chain,
                   wstatus, runVars>>

\* lines 526-533 and 647-656: waitpid() returns when the child running the
\* entry has terminated; the loop takes its exit code and steps to the next
\* entry
launchWaitpid ==
    /\ pc = "waitpid"
    /\ \E out \in {o \in Outcomes(kindOf(Head(executable))) : o.k \in {"exit", "signal"}} :
          /\ launched' = Append(launched, [e |-> Head(executable), by |-> depth, out |-> out,
                                            argv |-> argv, envp |-> envp])
          /\ result' = aggregate(result, launch(out))
    /\ executable' = Tail(executable)
    /\ pc' = "loop"
    /\ UNCHANGED <<said, fsVars, argVars, argv, executableHead, toVisit, outOfOrder, chain,
                   depth, saved, wstatus, runVars>>

\* lines 659-668 and main's return, in the process the operator started
loopExit ==
    /\ pc = "loop"
    /\ ~loopContinues(executable, result)
    /\ depth = 0
    /\ executableHead' = <<>>
    /\ pc' = "done"
    /\ UNCHANGED <<result, said, fsVars, argVars, argv, executable, toVisit, outOfOrder, chain,
                   launched, depth, saved, wstatus, runVars>>

\* the same lines in a vfork child: it exits with result, its parent resumes
childExit ==
    /\ pc = "loop"
    /\ ~loopContinues(executable, result)
    /\ depth > 0
    /\ executableHead' = <<>>
    /\ wstatus' = [k |-> "exit", code |-> result % 256]
    /\ depth' = depth - 1
    /\ pc' = "resume"
    /\ UNCHANGED <<result, said, fsVars, argVars, argv, executable, toVisit, outOfOrder, chain,
                   launched, saved, runVars>>

\* A process resumes in launch() after its vfork child ran on its stack:
\* undefined. It faults; or it goes on with the loop variables as the child
\* left them in memory; or with those it held in registers at the vfork.
ResumeOutcomes == {"crash", "shared", "restored"}

resume ==
    /\ pc = "resume"
    /\ \E ub \in ResumeOutcomes :
          LET top == saved[Len(saved)]
              res == waited(wstatus)
          IN  CASE ub = "crash" ->
                     /\ IF depth = 0
                        THEN /\ pc' = "crashed"
                             /\ UNCHANGED <<depth, wstatus>>
                        ELSE /\ pc' = "resume"
                             /\ depth' = depth - 1
                             /\ wstatus' = [k |-> "signal", code |-> 0]
                     /\ UNCHANGED <<result, executable>>
                [] ub = "shared" ->
                     /\ pc' = "loop"
                     /\ result' = aggregate(result, res)
                     /\ UNCHANGED <<executable, depth, wstatus>>
                [] ub = "restored" ->
                     /\ pc' = "loop"
                     /\ result' = aggregate(top.result, res)
                     /\ executable' = Tail(top.executable)
                     /\ UNCHANGED <<depth, wstatus>>
    /\ saved' = SubSeq(saved, 1, Len(saved) - 1)
    /\ UNCHANGED <<said, fsVars, argVars, argv, executableHead, toVisit, outOfOrder, chain,
                   launched, runVars>>

Next ==
    \/ main
    \/ installAbsolutePath
    \/ installGetScriptsDir
    \/ installStat
    \/ installRename
    \/ installSymlink
    \/ repeatInstall
    \/ invokeAbsolutePath
    \/ invokeGetScriptsDir
    \/ invokeGetCommonDir
    \/ nftwEntry
    \/ nftwReturn
    \/ loopBody
    \/ launchWaitpid
    \/ loopExit
    \/ childExit
    \/ resume

Spec == Init /\ [][Next]_vars

\* ================================================================== claims
isDispatch == argv0 # "cuckoo"
isInstall == argv0 = "cuckoo"

\* how many times launch() was called for entry e, and by the process itself
launchesOf(e) == Cardinality({i \in 1..Len(launched) : launched[i].e = e})
ownLaunchesOf(e) ==
    Cardinality({i \in 1..Len(launched) : launched[i].e = e /\ launched[i].by = 0})

\* every launch so far produced a child that ran the entry
childrenRan == \A i \in 1..Len(launched) : launched[i].out.k \in {"exit", "signal"}

\* the exit code of a launched child, 0 when it did not exit
exitCodeOf(l) == IF l.out.k = "exit" THEN l.out.code ELSE 0

firstNonZeroExit ==
    LET nz == {i \in 1..Len(launched) : exitCodeOf(launched[i]) # 0}
    IN  IF nz = {} THEN 0
        ELSE exitCodeOf(launched[CHOOSE i \in nz : \A j \in nz : i <= j])

\* the executable entries of the scripts directory
scriptEntries == {Entry("s", n) : n \in {m \in ScriptNames : sdFiles[m] \in {"exec", "badfmt", "fifox"}}}

\* C1: whatever the exit codes of the children, the code dispatch has
\* aggregated (and returns) is the exit code of the first child, in launch
\* order, that exited non-zero, and 0 when no child did or the chain is empty.
C1_ExitCodeIsFirstNonZero ==
    (isDispatch /\ pc \in {"loop", "done"} /\ childrenRan) => result = firstNonZeroExit

C1_Witness ==
    /\ isDispatch /\ pc = "done" /\ childrenRan
    /\ Len(launched) >= 3
    /\ exitCodeOf(launched[1]) = 0
    /\ exitCodeOf(launched[2]) = 2
    /\ exitCodeOf(launched[3]) = 1
    /\ result = 2

\* C2: when dispatch returns, launch() has been called exactly once for every
\* entry the scans found, and for nothing else, whatever the children's exit
\* codes were (execve() failing is the subject of C10).
C2_EveryEntryLaunchedOnce ==
    (isDispatch /\ pc = "done" /\ execFailures(launched) = 0)
        => /\ \A i \in 1..Len(chain) : launchesOf(chain[i]) = 1
           /\ Len(launched) = Len(chain)

C2_Witness ==
    /\ isDispatch /\ pc = "done" /\ childrenRan
    /\ Len(chain) >= 3
    /\ exitCodeOf(launched[1]) # 0
    /\ \A i \in 1..Len(chain) : launchesOf(chain[i]) = 1

\* C3: the entries of the scripts directory are launched in ascending order
\* of base name, whatever the order the walk reported them in, and a dispatch
\* that ran its loop launched all the executable ones.
C3_ScriptsLaunchedInOrder ==
    (isDispatch /\ execFailures(launched) = 0)
        => /\ \A i, j \in 1..Len(launched) :
                (i < j /\ launched[i].e.d = "s" /\ launched[j].e.d = "s")
                    => launched[i].e.n < launched[j].e.n
           /\ (pc = "done" /\ said = "")
                => {launched[i].e : i \in 1..Len(launched)} \cap {Entry("s", n) : n \in ScriptNames}
                     = scriptEntries

C3_Witness ==
    /\ isDispatch /\ pc = "done" /\ outOfOrder
    /\ \A n \in 1..3 : \E i \in 1..Len(launched) : launched[i].e = Entry("s", n)

\* C4 as stated: no entry of the common directory is launched before an
\* entry of the scripts directory.
C4_ScriptsBeforeCommon ==
    isDispatch => \A i, j \in 1..Len(launched) :
                     i < j => ~(launched[i].e.d = "c" /\ launched[j].e.d = "s")

\* C4 amended: the entries of both directories are launched in one sequence
\* ascending by base name, whatever their directory; of two entries with the
\* same base name the one of the scripts directory is launched first.
C4_MergedByBaseName ==
    (isDispatch /\ execFailures(launched) = 0)
        => \A i, j \in 1..Len(launched) :
              i < j => \/ launched[i].e.n < launched[j].e.n
                       \/ /\ launched[i].e.n = launched[j].e.n
                          /\ launched[i].e.d = "s"
                          /\ launched[j].e.d = "c"

C4_Witness ==
    /\ isDispatch /\ pc = "done"
    /\ \E i, j \in 1..Len(launched) :
          i < j /\ launched[i].e.d = "c" /\ launched[j].e.d = "s"
    /\ \E i, j \in 1..Len(launched) :
          i < j /\ launched[i].e.n = launched[j].e.n

\* C5: when install has reported success, the scripts directory is a
\* directory, it holds the original file as 50-<name>, the original path is a
\* symbolic link to the tool's own path, and install returns 0.
C5_InstalledLayout ==
    (isInstall /\ pc = "done" /\ said = "installed")
        => /\ scriptsDir \in {"dir", "noread"}
           /\ moved = "orig"
           /\ target = "link_self"
           /\ result = 0

C5_Witness ==
    /\ isInstall /\ pc = "done" /\ said = "installed"
    /\ fs0.target = "regx" /\ fs0.scriptsDir = "absent"
    /\ target = "link_self" /\ moved = "orig"

\* C6: a further install on a target a first install succeeded on changes
\* nothing in the filesystem at any step, says there is nothing to do and
\* returns 0.
C6_InstallIdempotent ==
    (isInstall /\ runs >= 2 /\ firstRun.said = "installed")
        => /\ FS = firstRun.fs
           /\ pc # "crashed"
           /\ pc = "done" => (result = 0 /\ said = "nothing to do")

C6_Witness ==
    /\ isInstall /\ runs = 2 /\ firstRun.said = "installed"
    /\ pc = "done" /\ result = 0 /\ FS = firstRun.fs

\* C7: an install with a path argument returns 0 exactly when it succeeded
\* or found the target already a symbolic link, and non-zero on every failure.
C7_NonZeroOnEveryFailure ==
    (isInstall /\ ~badUsage(argc, arg1) /\ pc = "done")
        => (result = 0 <=> said \in {"installed", "nothing to do"})

\* C8: when the common directory is absent or unreadable, a dispatch whose
\* scripts directory holds executables ends by returning, having launched
\* each of them once, with their aggregated exit code.
C8_CommonDirOptional ==
    (/\ isDispatch
     /\ fs0.commonDir \in {"absent", "noread"}
     /\ absolutePath(fs0.target) # "NULL"
     /\ fs0.scriptsDir = "dir"
     /\ \E n \in ScriptNames : sdFiles[n] = "exec"
     /\ badFiles(sdFiles) = 0
     /\ pc \in {"done", "crashed"})
        => /\ pc = "done"
           /\ \A n \in ScriptNames : sdFiles[n] = "exec" => launchesOf(Entry("s", n)) = 1
           /\ childrenRan => result = firstNonZeroExit

\* C9: the install command with a wrong argument count or an empty argument
\* returns non-zero and leaves the filesystem as it was.
C9_UsageErrorIsNonZero ==
    (isInstall /\ runs = 1 /\ badUsage(argc, arg1) /\ pc = "done")
        => (result # 0 /\ FS = fs0)

\* C10: when execve() failed for an entry, dispatch still ends by returning,
\* with a non-zero exit code, and the process itself has launched every entry
\* of the chain exactly once.
C10_LaunchFailureCounted ==
    (isDispatch /\ execFailures(launched) > 0 /\ pc \in {"done", "crashed"})
        => /\ pc = "done"
           /\ result # 0
           /\ \A i \in 1..Len(chain) : ownLaunchesOf(chain[i]) = 1

\* C14: a dispatch that found no scripts directory launches nothing and
\* returns 0.
C14_NoScriptsDirLaunchesNothing ==
    (/\ isDispatch
     /\ absolutePath(fs0.target) # "NULL"
     /\ fs0.scriptsDir = "absent"
     /\ pc \in {"done", "crashed"})
        => (pc = "done" /\ launched = <<>> /\ result = 0)

\* C15: a dispatch leaves the filesystem as it found it.
C15_DispatchLeavesFilesystem ==
    isDispatch => FS = fs0

\* C16: when the symbolic link could not be created after the move, install
\* returns non-zero, the original file is at 50-<name> in the scripts
\* directory and nothing is at the original path.
C16_SymlinkFailureLeavesMovedFile ==
    (isInstall /\ pc = "done" /\ said = "err: unable to symlink")
        => /\ result # 0
           /\ moved = "orig"
           /\ target = "absent"
           /\ scriptsDir \in {"dir", "noread"}

C16_Witness ==
    /\ isInstall /\ pc = "done" /\ said = "err: unable to symlink"
    /\ runs = 1 /\ fs0.target = "regx"
    /\ moved = "orig" /\ target = "absent" /\ result = EACCES

\* C17: an install on a target that is not an executable regular file
\* changes nothing in the filesystem.
C17_OnlyExecutableTargetChangesFilesystem ==
    (isInstall /\ runs = 1 /\ fs0.target # "regx") => FS = fs0

\* C18: a dispatch that reported an error and launched nothing returns a
\* non-zero exit code.
C18_DispatchErrorIsNonZero ==
    (isDispatch /\ pc = "done" /\ said = "err") => result # 0

\* C19: at every step of an install on an executable regular file, and of
\* later installs on it, the original file is at exactly one of the original
\* path and 50-<name> in the scripts directory.
C19_OriginalAtExactlyOnePath ==
    (isInstall /\ fs0.target = "regx")
        => ((target = "regx") # (moved = "orig"))

C19_Witness ==
    /\ isInstall /\ fs0.target = "regx"
    /\ pc = "install_symlink"
    /\ target = "absent" /\ moved = "orig"

\* C20: during the scans the list is sorted in non-decreasing order of base
\* name across both directories, with an entry of the scripts directory
\* before the entry of the common directory of the same base name, and the
\* list is empty when dispatch has returned.
C20_ListSortedAndEmptied ==
    isDispatch
        => /\ pc \in {"nftw_s", "nftw_c"}
                => \A i, j \in 1..Len(executableHead) :
                      i < j => \/ executableHead[i].n < executableHead[j].n
                               \/ /\ executableHead[i].n = executableHead[j].n
                                  /\ executableHead[i].d = "s"
                                  /\ executableHead[j].d = "c"
           /\ pc = "done" => executableHead = <<>>

C20_Witness ==
    /\ isDispatch /\ pc = "nftw_c" /\ toVisit = {}
    /\ Len(executableHead) >= 4
    /\ \E i \in 1..Len(executableHead) - 1 :
          /\ executableHead[i].n = executableHead[i + 1].n
          /\ executableHead[i].d = "s"
    /\ executableHead[1].d = "c"

\* C12: every call of launch() hands the child the entry's path as argv[0],
\* the arguments the dispatcher was started with after it, in order, and the
\* dispatcher's environment.
C12_ArgumentsForwarded ==
    isDispatch
        => \A i \in 1..Len(launched) :
              /\ launched[i].argv[1] = launched[i].e
              /\ Tail(launched[i].argv) = Args
              /\ launched[i].envp = Environ

C12_Witness ==
    /\ isDispatch /\ pc = "done" /\ argc = 2
    /\ Len(launched) >= 2
    /\ launched[2].argv = <<launched[2].e, arg1>>
    /\ launched[1].e # launched[2].e

\* the executable regular files that are immediate children of the two
\* directories, as the scans find them
regularExecutables ==
    {e \in walkOf(scriptsDir, sdFiles, "s") \cup walkOf(commonDir, cdFiles, "c") :
        kindOf(e) \in {"exec", "badfmt"}}

\* C13: the entries a dispatch launches from a scanned directory are exactly
\* the regular files that are immediate children of it and carry execute
\* permission: nothing inside a subdirectory, no subdirectory, no file without
\* execute permission, nothing that is not a regular file.
C13_LaunchedAreExecutableRegularFiles ==
    isDispatch
        => /\ \A i \in 1..Len(launched) : launched[i].e \in regularExecutables
           /\ pc = "loop" => {chain[i] : i \in 1..Len(chain)} = regularExecutables

\* the processes below the dispatcher that have not terminated: the vfork
\* children that went on in the loop, and the child waitpid() is waiting for
running == depth + (IF pc = "waitpid" THEN 1 ELSE 0)

\* C11: the chain runs strictly sequentially: at most one child process is
\* running at any time, and an entry is launched only when the children of
\* the entries before it have all terminated.
C11_StrictlySequential ==
    isDispatch
        => /\ running <= 1
           /\ \A i \in 1..Len(launched) : launched[i].by = 0

\* a child that a signal killed, or that exited with 0
contributesZero(l) == l.out.k = "signal" \/ (l.out.k = "exit" /\ l.out.code = 0)

\* C21: a child terminated by a signal contributes 0 to the aggregation:
\* when every child so far was killed or exited with 0 the code is 0, and a
\* non-zero code is the exit code of a child that exited, every child before
\* it having been killed or having exited with 0.
C21_SignalledChildContributesZero ==
    (isDispatch /\ pc \in {"loop", "waitpid", "done"} /\ childrenRan)
        => /\ (\A i \in 1..Len(launched) : contributesZero(launched[i])) => result = 0
           /\ result # 0
                 => \E i \in 1..Len(launched) :
                       /\ launched[i].out = [k |-> "exit", code |-> result]
                       /\ \A j \in 1..(i - 1) : contributesZero(launched[j])

C21_Witness ==
    /\ isDispatch /\ pc = "done" /\ childrenRan
    /\ Len(launched) >= 3
    /\ launched[1].out.k = "signal"
    /\ launched[2].out = [k |-> "exit", code |-> 2]
    /\ launched[3].out.k = "signal"
    /\ result = 2

====
